---- MODULE Spec2Model ----
(***************************************************************************)
(* Model of the weewx-wns uploader (bin/user/wns.py): the field table and *)
(* its configuration overrides, the record serializer __wns_umwandeln,    *)
(* the bounded archive queue between Wns.new_archive_record and the       *)
(* WnsThread worker, the Gruenlandtemperatursumme accumulator calc_gts,   *)
(* the request built by format_url and the enrichment of a record from    *)
(* the archive in get_record.                                             *)
(*                                                                         *)
(* Numbers.  A Python number is held as an integer count of thousandths   *)
(* of its unit (20.5 degree_C is 20500, the timestamp 86400 s is          *)
(* 86400000), so that unit conversions and the rounding done by the       *)
(* format strings are computed and not assumed.                           *)
(***************************************************************************)
EXTENDS Integers, Sequences, FiniteSets, TLC

VARIABLES
    conf,           \* WnsThread.__init__ keyword arguments T5AKT_ .. TSOI50
    DATA_MAP,       \* WnsThread._DATA_MAP after __init__
    record,         \* the record handed to __wns_umwandeln
    ser_pc,         \* "ready" | "returned" | "raised"
    data,           \* __data, the token list built by __wns_umwandeln
    ser_exc,        \* class of the exception that left __wns_umwandeln, or ""
    ser_log,        \* logerr() calls made by __wns_umwandeln
    archive_queue,  \* Wns.archive_queue, oldest record first
    next_id,        \* number of the next archive record of the engine
    put_pc,         \* new_archive_record: "idle" | "waiting" (inside put())
    put_rec,        \* the record put() is waiting to enqueue
    put_waited,     \* seconds put() has waited so far
    dropped,        \* numbers of the records new_archive_record discarded
    q_log,          \* logerr() calls made by new_archive_record
    w_pc,           \* worker: "get" | "process" | "post" | "wait" | "terminated"
    w_rec,          \* the record the worker is processing
    w_tries,        \* tries made for w_rec
    w_slept,        \* seconds slept since the last failed try
    w_gap,          \* shortest pause between two tries for w_rec, -1 if none
    done,           \* the last delivery the worker finished
    last_gts_date,  \* WnsThread.last_gts_date
    gts_value,      \* WnsThread.gts_value
    gts_date,       \* WnsThread.gts_date
    gts_loops,      \* _loop_ct of the last call of calc_gts
    time_ts,        \* dateTime of the record calc_gts was last called for
    history,        \* which temperature history the archive holds
    dst,            \* the local time zone has daylight saving time
    gts_days,       \* the days whose mean calc_gts has added, in order
    gts_exc,        \* class of the exception that left calc_gts last, or ""
    init_count,     \* number of WnsThread objects constructed in the process
    init_exc,       \* class of the exception that left __init__, or ""
    init_log,       \* logerr() calls made by __init__
    api_key,        \* WnsThread.api_key
    log_url,        \* WnsThread.log_url
    debug,          \* weewx.debug
    url,            \* what format_url returned last
    url_log,        \* loginf() and logdbg() calls made by format_url
    url_calls,      \* number of calls of format_url
    in_record,      \* keys of the record the parent class hands to get_record
    archive,        \* dateTime of the archive records around one hour ago
    db_fault,       \* the query on which the database raises, or ""
    datadict,       \* _datadict returned by get_record: key -> origin of value
    queries,        \* getSql and get_aggregate calls of get_record, in order
    rec_exc,        \* class of the exception that left get_record, or ""
    ago1_ts,        \* _ago1_ts of the last call of get_record
    rec_calls       \* number of calls of get_record

ser_vars == <<conf, DATA_MAP, record, ser_pc, data, ser_exc, ser_log>>
producer_vars == <<next_id, put_pc, put_rec, put_waited, dropped>>
worker_vars == <<w_pc, w_rec, w_tries, w_slept, w_gap, done>>
queue_vars == <<archive_queue, producer_vars, q_log, worker_vars>>
gts_vars == <<last_gts_date, gts_value, gts_date, gts_loops, time_ts, history,
              dst, gts_days, gts_exc>>
init_vars == <<init_count, init_exc, init_log>>
url_vars == <<api_key, log_url, debug, url, url_log, url_calls>>
enrich_vars == <<in_record, archive, db_fault, datadict, queries, rec_exc,
                 ago1_ts, rec_calls>>
aux_vars == <<init_vars, url_vars, enrich_vars>>
vars == <<ser_vars, queue_vars, gts_vars, aux_vars>>

----------------------------------------------------------------------------
(* Python values *)

PyNone == [t |-> "none", v |-> 0]
PyNum(n) == [t |-> "num", v |-> n]
\* a str where a number is expected
PyStr == [t |-> "str", v |-> 0]
\* a number outside the range of a C double / time_t (such as 10**400)
PyBig == [t |-> "big", v |-> 0]

\* configuration values: None, or a str
CfgNone == [t |-> "none", s |-> ""]
CfgStr(s) == [t |-> "str", s |-> s]
\* a non-str configuration value (an int); s is its str()
CfgInt(s) == [t |-> "int", s |-> s]

----------------------------------------------------------------------------
(* The field table *)

DEFAULT_DATA_MAP == <<
    <<"T2AKT_", "outTemp", "", "", "{:.1f}">>,
    <<"T2MIN_", "outTempDayMin", "", "", "{:.1f}">>,
    <<"T2MAX_", "outTempDayMax", "", "", "{:.1f}">>,
    <<"T2D1H_", "outTempDiff1h", "", "", "{:.1f}">>,
    <<"T5AKT_", "", "", "", "{:.1f}">>,
    <<"T5MIN_", "", "", "", "{:.1f}">>,
    <<"LFAKT_", "outHumidity", "", "", "{:.0f}">>,
    <<"RRD05_", "rain", "", "", "{:.1f}">>,
    <<"RRD10_", "rain10m", "", "", "{:.1f}">>,
    <<"RRD1H_", "hourRain", "", "", "{:.1f}">>,
    <<"RRD3H_", "rain3", "", "", "{:.1f}">>,
    <<"RRD24H", "rain24", "", "", "{:.1f}">>,
    <<"RRD1D_", "dayRain", "", "", "{:.1f}">>,
    <<"WSAKT_", "windSpeed", "", "", "{:.1f}">>,
    <<"WRAKT_", "windDir", "", "", "{:.0f}">>,
    <<"WBAKT_", "windGust", "", "", "{:.1f}">>,
    <<"WSM10_", "windSpeed10", "", "", "{:.1f}">>,
    <<"WRM10_", "windDir10", "", "", "{:.0f}">>,
    <<"WSMX1H", "windSpeed", "1h", "max", "{:.1f}">>,
    <<"WSMX1D", "windSpeed", "Day", "max", "{:.1f}">>,
    <<"WBMX1D", "windGust", "Day", "max", "{:.1f}">>,
    <<"WCAKT_", "windchill", "", "", "{:.1f}">>,
    <<"WCMN1H", "windchill1hMin", "", "", "{:.1f}">>,
    <<"WCMN1D", "windchillDayMin", "", "", "{:.1f}">>,
    <<"LDAKT_", "barometer", "", "", "{:.1f}">>,
    <<"LDABS_", "pressure", "", "", "{:.1f}">>,
    <<"LDD1H_", "barometer", "1h", "diff", "{:.1f}">>,
    <<"LDD3H_", "barometer", "3h", "diff", "{:.1f}">>,
    <<"LDD24H", "barometer", "24h", "diff", "{:.1f}">>,
    <<"EVA1D_", "dayET", "", "", "{:.1f}">>,
    <<"SOD1H_", "", "", "", "{:.1f}">>,
    <<"SOD1D_", "", "", "", "HH:MM">>,
    <<"BEDGRA", "", "", "", "{:.1f}">>,
    <<"SSAKT_", "radiation", "", "", "{:.0f}">>,
    <<"SSMX1H", "radiation1hMax", "", "", "{:.0f}">>,
    <<"SSMX1D", "radiation", "Day", "max", "{:.0f}">>,
    <<"UVINDX", "UV", "", "", "{:.1f}">>,
    <<"UVMX1D", "UVDayMax", "", "", "{:.1f}">>,
    <<"WOLKUG", "cloudbase", "", "", "{:.0f}">>,
    <<"SIWEIT", "", "", "", "{:.1f}">>,
    <<"SNEHOE", "", "", "", "{:.1f}">>,
    <<"SNEDAT", "", "", "", "date">>,
    <<"SNEFGR", "", "", "", "{:.1f}">>,
    <<"T2M1M_", "outTempMonthAvg", "", "", "{:.2f}">>,
    <<"T2M1MA", "", "", "", "{:.1f}">>,
    <<"RRDATU", "lastRainDate", "", "", "date">>,
    <<"RRGEST", "yesterdayRain", "", "", "{:.1f}">>,
    <<"RRD1M_", "monthRain", "", "", "{:.1f}">>,
    <<"RRD1MR", "", "", "", "{:.1f}">>,
    <<"RRD1A_", "yearRain", "", "", "{:.1f}">>,
    <<"RRD1AR", "", "", "", "{:.1f}">>,
    <<"EVAD1M", "monthET", "", "", "{:.1f}">>,
    <<"EVAD1A", "yearET", "", "", "{:.1f}">>,
    <<"SOD1M_", "", "", "", "{:.2f}">>,
    <<"SOD1MR", "", "", "", "{:.1f}">>,
    <<"SOD1A_", "", "", "", "{:.2f}">>,
    <<"SOD1AR", "", "", "", "{:.1f}">>,
    <<"KLTSUM", "cooldegsum", "", "", "{:.1f}">>,
    <<"WRMSUM", "heatdegsum", "", "", "{:.1f}">>,
    <<"GRASUM", "GTS", "", "", "{:.1f}">>,
    <<"GRADAT", "GTSdate", "", "", "date">>,
    <<"TSOI10", "", "", "", "{:.1f}">>,
    <<"TSOI20", "", "", "", "{:.1f}">>,
    <<"TSOI50", "", "", "", "{:.1f}">>,
    <<"WBMX1H", "windGust", "1h", "max", "{:.1f}">>,
    <<"SSSUMG", "radiationYesterdayIntegral", "", "", "{:.0f}">>
>>

\* tuple positions of a _DATA_MAP entry
Key(v) == v[1]
Obs(v) == v[2]
Tim(v) == v[3]
Agg(v) == v[4]
Fstr(v) == v[5]

_UNIT_MAP == [group_rain |-> "mm",
              group_rainrate |-> "mm_per_hour",
              group_speed |-> "km_per_hour"]

\* str.capitalize() on the window and operator names that occur
Capitalize(s) ==
    CASE s = "" -> ""
      [] s = "1h" -> "1h"
      [] s = "3h" -> "3h"
      [] s = "24h" -> "24h"
      [] s = "Day" -> "Day"
      [] s = "Month" -> "Month"
      [] s = "Year" -> "Year"
      [] s = "min" -> "Min"
      [] s = "max" -> "Max"
      [] s = "sum" -> "Sum"
      [] s = "diff" -> "Diff"

\* archive column name of an entry
Rkey(v) == Obs(v) \o Capitalize(Tim(v)) \o Capitalize(Agg(v))

----------------------------------------------------------------------------
(* WnsThread.__init__: the field-source overrides *)

\* str.lower() on the configuration strings that occur
Lower(s) ==
    CASE s = "None" -> "none"
      [] s = "NONE" -> "none"
      [] OTHER -> s

\* the entry at position i with the source, window and operator replaced
Replaced(table, i, obs, tim, agg) ==
    <<Key(table[i]), obs, tim, agg, Fstr(table[i])>>

\* T5AKT_ = ... : 5cm temperature
OverrideT5AKT(table, val) ==
    IF val.t # "none" /\ ~(val.t = "str" /\ val.s \in {"None", ""})
    THEN [i \in 1..Len(table) |->
            IF Key(table[i]) = "T5AKT_" THEN Replaced(table, i, val.s, "", "")
            ELSE IF Key(table[i]) = "T5MIN_"
                 THEN Replaced(table, i, val.s, "Day", "min")
                 ELSE table[i]]
    ELSE table

\* SOD1D_.lower() raises AttributeError on a value that is no str
OverrideSOD1DRaises(val) == val.t = "int"

\* SOD1D_ = ... : sunshine duration
OverrideSOD1D(table, val) ==
    IF val.t = "str" /\ Lower(val.s) # "none" /\ val.s # ""
    THEN [i \in 1..Len(table) |->
            CASE Key(table[i]) = "SOD1H_" -> Replaced(table, i, val.s, "1h", "sum")
              [] Key(table[i]) = "SOD1D_" -> Replaced(table, i, val.s, "Day", "sum")
              [] Key(table[i]) = "SOD1M_" -> Replaced(table, i, val.s, "Month", "sum")
              [] Key(table[i]) = "SOD1A_" -> Replaced(table, i, val.s, "Year", "sum")
              [] OTHER -> table[i]]
    ELSE table

\* TSOI10, TSOI20, TSOI50 = ... : soil temperatures
OverrideTSOI(table, key, val) ==
    IF val.t # "none" /\ ~(val.t = "str" /\ val.s \in {"None", ""})
    THEN [i \in 1..Len(table) |->
            IF Key(table[i]) = key THEN Replaced(table, i, val.s, "", "")
            ELSE table[i]]
    ELSE table

\* the table the constructor leaves behind
ThreadInitTable(c) ==
    OverrideTSOI(
      OverrideTSOI(
        OverrideTSOI(
          OverrideSOD1D(OverrideT5AKT(DEFAULT_DATA_MAP, c.T5AKT_), c.SOD1D_),
          "TSOI10", c.TSOI10),
        "TSOI20", c.TSOI20),
      "TSOI50", c.TSOI50)

NoOverrides == [T5AKT_ |-> CfgNone, SOD1D_ |-> CfgNone, TSOI10 |-> CfgNone,
                TSOI20 |-> CfgNone, TSOI50 |-> CfgNone]

----------------------------------------------------------------------------
(* weewx.units as __wns_umwandeln uses it *)

\* weewx.units.obs_group_dict for the archive column names of the model
ObsGroup(rkey) ==
    CASE rkey \in {"outTemp", "outTemp1h"} -> "group_temperature"
      [] rkey \in {"barometer", "barometer1h", "barometer1hDiff"} -> "group_pressure"
      [] rkey = "lastRainDate" -> "group_time"
      [] rkey = "windSpeed1hMax" -> "group_speed"
      [] rkey \in {"sunshineDur1hSum", "sunshineDurDaySum"} -> "group_deltatime"
      [] OTHER -> "none"

\* the unit of a unit group in the METRICWX unit system
StdUnit(group) ==
    CASE group = "group_temperature" -> "degree_C"
      [] group = "group_pressure" -> "mbar"
      [] group = "group_time" -> "unix_epoch"
      [] group = "group_speed" -> "meter_per_second"
      [] group = "group_deltatime" -> "second"
      [] OTHER -> "none"

\* a value tuple, or the exception raised on the way to it
Vt(val, unit, group) == [exc |-> "", val |-> val, unit |-> unit, group |-> group]
Raise(r, class) == [r EXCEPT !.exc = class]

as_value_tuple(rec, rkey) == Vt(rec[rkey], StdUnit(ObsGroup(rkey)), ObsGroup(rkey))

\* the conversions weewx.units.conversionDict holds for the units of the model
HasConversion(from, to) ==
    <<from, to>> \in {<<"second", "minute">>, <<"second", "hour">>,
                      <<"hour", "minute">>, <<"meter_per_second", "km_per_hour">>}

ConvertNum(n, from, to) ==
    CASE <<from, to>> = <<"second", "minute">> -> n \div 60
      [] <<from, to>> = <<"second", "hour">> -> n \div 3600
      [] <<from, to>> = <<"hour", "minute">> -> n * 60
      [] <<from, to>> = <<"meter_per_second", "km_per_hour">> -> (n * 36) \div 10

\* weewx.units.convert(vt, target)
convert(r, target) ==
    IF r.exc # "" THEN r
    ELSE IF r.unit = target \/ r.val = PyNone THEN r
    ELSE IF ~HasConversion(r.unit, target) THEN Raise(r, "KeyError")
    ELSE IF r.val.t = "str" THEN Raise(r, "TypeError")
    ELSE IF r.val.t = "big" THEN Raise(r, "OverflowError")
    ELSE [r EXCEPT !.val = PyNum(ConvertNum(r.val.v, r.unit, target)),
                   !.unit = target]

\* "%.3f" % value, as in the logdbg() calls around the unit conversion
PercentF(r) ==
    IF r.exc # "" THEN r
    ELSE IF r.val.t \in {"str", "none"} THEN Raise(r, "TypeError")
    ELSE IF r.val.t = "big" THEN Raise(r, "OverflowError")
    ELSE r

----------------------------------------------------------------------------
(* Tokens *)

Tok(k, a, b) == [k |-> k, a |-> a, b |-> b]
Placeholder == Tok("--", 0, 0)
Literal(s) == Tok(s, 0, 0)

\* n / d rounded to the nearest integer, ties to even (n >= 0, d > 0)
RoundHalfEven(n, d) ==
    LET q == n \div d
        r == n % d
    IN  IF 2 * r < d THEN q
        ELSE IF 2 * r > d THEN q + 1
        ELSE IF q % 2 = 0 THEN q ELSE q + 1

\* number of decimals of a format string '{:.Nf}'
Decimals(fstr) ==
    CASE fstr = "{:.0f}" -> 0
      [] fstr = "{:.1f}" -> 1
      [] fstr = "{:.2f}" -> 2

Pow10(k) == CASE k = 0 -> 1 [] k = 1 -> 10 [] k = 2 -> 100 [] k = 3 -> 1000

\* fstr.format(value): the token holds the digits, value * 10^decimals rounded
FormatNum(fstr, n) ==
    Tok("num", Decimals(fstr), RoundHalfEven(n, Pow10(3 - Decimals(fstr))))

\* time.strftime("%d.%m.%Y", time.gmtime(ts)): the day since the epoch
DateToken(n) == Tok("date", (n \div 1000) \div 86400, 0)

\* time.strftime("%H:%M", time.gmtime(ts))
TimeToken(n) ==
    Tok("time", ((n \div 1000) % 86400) \div 3600, (((n \div 1000) % 86400) % 3600) \div 60)

\* '%.0f:%02.0f' % divmod(minutes, 60)
HhmmToken(n) == Tok("hhmm", n \div 60000, RoundHalfEven(n % 60000, 1000))

----------------------------------------------------------------------------
(* WnsThread.__wns_umwandeln *)

\* the exception classes the per-field handler catches
CaughtPerField == {"TypeError", "ValueError", "IndexError", "KeyError"}

\* group-specific unit override, with its two logdbg() calls
UnitMapStep(r) ==
    IF r.exc = "" /\ r.group \in DOMAIN _UNIT_MAP
    THEN PercentF(convert(PercentF(r), _UNIT_MAP[r.group]))
    ELSE r

\* daily, monthly and yearly sunshine duration in hours
SunshineHoursStep(key, r) ==
    IF key \in {"SOD1D_", "SOD1M_", "SOD1A_"} THEN convert(r, "hour") ELSE r

\* SunshineClamp without the tolerance up to 65 minutes
SunshineClamp_NoTolerance(r) ==
    IF r.exc # "" THEN r
    ELSE IF r.val.t = "str" THEN Raise(r, "TypeError")
    ELSE IF r.val.t = "big" \/ r.val.v > 60000 THEN Raise(r, "ValueError")
    ELSE r

\* the limits applied to the sunshine duration of the last hour, in minutes
SunshineClamp(r) ==
    IF r.exc # "" THEN r
    ELSE IF r.val.t = "str" THEN Raise(r, "TypeError")
    ELSE IF r.val.t = "big" \/ r.val.v > 65000 THEN Raise(r, "ValueError")
    ELSE IF r.val.v > 60000 THEN [r EXCEPT !.val = PyNum(60000)]
    ELSE r

\* sunshine duration during the last hour
SunshineHourStep(key, r) ==
    IF key = "SOD1H_" THEN SunshineClamp(convert(r, "minute")) ELSE r

\* format value to string: [exc, tok]
FormatStep(fstr, raw, r) ==
    IF r.exc # "" THEN [exc |-> r.exc, tok |-> Placeholder]
    ELSE IF r.group = "group_time"
    THEN CASE raw.t = "num" -> [exc |-> "", tok |-> DateToken(raw.v)]
           [] raw.t = "str" -> [exc |-> "TypeError", tok |-> Placeholder]
           [] raw.t = "big" -> [exc |-> "OverflowError", tok |-> Placeholder]
    ELSE IF fstr = "HH:MM"
    THEN LET m == IF r.unit # "minute" THEN convert(r, "minute") ELSE r
         IN  CASE m.exc # "" -> [exc |-> m.exc, tok |-> Placeholder]
               [] m.exc = "" /\ m.val.t = "str" -> [exc |-> "TypeError", tok |-> Placeholder]
               [] m.exc = "" /\ m.val.t = "big" -> [exc |-> "OverflowError", tok |-> Placeholder]
               [] m.exc = "" /\ m.val.t = "num" -> [exc |-> "", tok |-> HhmmToken(m.val.v)]
    ELSE IF fstr = "date" THEN [exc |-> "", tok |-> Literal("date")]
    ELSE CASE r.val.t = "num" -> [exc |-> "", tok |-> FormatNum(fstr, r.val.v)]
           [] r.val.t = "str" -> [exc |-> "ValueError", tok |-> Placeholder]
           [] r.val.t = "big" -> [exc |-> "OverflowError", tok |-> Placeholder]

\* the body of the try block for one entry whose value is present and not None
FieldToken(v, rec) ==
    FormatStep(Fstr(v), rec[Rkey(v)],
        SunshineHourStep(Key(v),
            SunshineHoursStep(Key(v),
                UnitMapStep(as_value_tuple(rec, Rkey(v))))))

\* MissingToken as a formatted zero in place of the placeholder
MissingToken_Zero == Tok("num", 1, 0)

\* the token of an entry without a value
MissingToken == Placeholder

\* the token of an entry whose conversion raised a caught exception
FailedToken == Placeholder

\* rkey in record_m and record_m[rkey] is not None
HasValue(rec, rkey) == rkey \in DOMAIN rec /\ rec[rkey] # PyNone

LogEntry(key, rkey, exc) == [key |-> key, rkey |-> rkey, exc |-> exc]

\* a - b on two record values: [exc, val]
Subtract(a, b) ==
    IF a.t = "num" /\ b.t = "num" THEN [exc |-> "", val |-> PyNum(a.v - b.v)]
    ELSE IF a.t \in {"none", "str"} \/ b.t \in {"none", "str"}
         THEN [exc |-> "TypeError", val |-> PyNone]
         ELSE [exc |-> "OverflowError", val |-> PyNone]

\* record_m[diff] = record_m[now] - record_m[ago], guarded as in the code:
\* [exc, rec, log]
DiffStep(s, diff, now, ago, what) ==
    IF s.exc # "" THEN s
    ELSE IF diff \notin DOMAIN s.rec /\ now \in DOMAIN s.rec /\ ago \in DOMAIN s.rec
    THEN LET d == Subtract(s.rec[now], s.rec[ago])
         IN  IF d.exc = ""
             THEN [s EXCEPT !.rec = [k \in DOMAIN s.rec \cup {diff} |->
                                       IF k = diff THEN d.val ELSE s.rec[k]]]
             ELSE IF d.exc \in {"TypeError", "ValueError"}
                  THEN [s EXCEPT !.log = Append(s.log, LogEntry(what, diff, d.exc))]
                  ELSE [s EXCEPT !.exc = d.exc]
    ELSE s

\* the record the tokens are taken from
RecordM(rec) ==
    DiffStep(DiffStep([exc |-> "", rec |-> rec, log |-> <<>>],
                      "outTempDiff1h", "outTemp", "outTemp1h", "outTemp calc 1h diff"),
             "barometer1hDiff", "barometer", "barometer1h", "barometer calc 1h diff")

\* WeeWX version string in the header
WSOVER == Literal("WEEWX_")

Header(rec) ==
    <<Literal("WNS_V2.3"), WSOVER, TimeToken(rec["dateTime"].v),
      DateToken(rec["dateTime"].v), Literal("0")>>

\* the for loop over _DATA_MAP from entry i on: [exc, data, log]
RECURSIVE FieldLoop(_, _, _, _)
FieldLoop(table, rec, i, acc) ==
    IF i > Len(table) \/ acc.exc # "" THEN acc
    ELSE LET v == table[i]
         IN  IF HasValue(rec, Rkey(v))
             THEN LET f == FieldToken(v, rec)
                  IN  IF f.exc = ""
                      THEN FieldLoop(table, rec, i + 1,
                                     [acc EXCEPT !.data = Append(acc.data, f.tok)])
                      ELSE IF f.exc \in CaughtPerField
                      THEN FieldLoop(table, rec, i + 1,
                             [acc EXCEPT !.data = Append(acc.data, FailedToken),
                                         !.log = Append(acc.log,
                                                   LogEntry(Key(v), Rkey(v), f.exc))])
                      ELSE [acc EXCEPT !.exc = f.exc]
             ELSE FieldLoop(table, rec, i + 1,
                            [acc EXCEPT !.data = Append(acc.data, MissingToken)])

\* __wns_umwandeln(record): [exc, data, log]; exc # "" when it raises
wns_umwandeln(table, rec) ==
    LET m == RecordM(rec)
    IN  IF m.exc # "" THEN [exc |-> m.exc, data |-> <<>>, log |-> m.log]
        ELSE FieldLoop(table, m.rec, 1,
                       [exc |-> "", data |-> Header(m.rec), log |-> m.log])

----------------------------------------------------------------------------
(* Serializer: the records and configurations it is run on *)

Absent == [t |-> "absent", v |-> 0]

\* the values each archive column takes in the input record
FieldValues ==
    [dateTime |-> {PyNum(90000000), PyNum(172740000)},
     outTemp |-> {Absent, PyNone, PyNum(20500), PyBig},
     outTemp1h |-> {Absent, PyNum(19250)},
     barometer |-> {PyNum(1013200)},
     barometer1h |-> {Absent, PyNum(1012000)},
     \* seconds of sunshine: 59.9, 60, 60.1, 61, 65, 65.1 and 66 minutes
     sunshineDur1hSum |-> {Absent, PyNone, PyNum(3594000), PyNum(3600000),
                           PyNum(3606000), PyNum(3660000), PyNum(3900000),
                           PyNum(3906000), PyNum(3960000), PyStr},
     sunshineDurDaySum |-> {Absent, PyNum(7170000)},
     lastRainDate |-> {Absent, PyNone, PyNum(86400000), PyBig},
     windSpeed1hMax |-> {Absent, PyNum(2500)}]

RecordKeys == DOMAIN FieldValues

\* the record holding the fields of f that are not Absent
MakeRecord(f) == [k \in {x \in RecordKeys : f[x] # Absent} |-> f[k]]

SerializerConfs ==
    {NoOverrides, [NoOverrides EXCEPT !.SOD1D_ = CfgStr("sunshineDur")]}

\* one call of __wns_umwandeln(record)
WnsUmwandeln ==
    /\ ser_pc = "ready"
    /\ \E r \in {wns_umwandeln(DATA_MAP, record)} :
           /\ ser_pc' = IF r.exc = "" THEN "returned" ELSE "raised"
           /\ data' = r.data
           /\ ser_exc' = r.exc
           /\ ser_log' = r.log
    /\ UNCHANGED <<conf, DATA_MAP, record, queue_vars, gts_vars, aux_vars>>


----------------------------------------------------------------------------
(* Wns: the archive queue between the engine's callback and the worker *)

\* queue.Queue(5)
archive_queue_maxsize == 5

\* self.archive_queue.put(event.record, timeout=10)
put_timeout == 10

\* WnsThread.__init__ defaults handed on to RESTThread.__init__
max_tries == 3
retry_wait == 5

\* RestThreadArgs with the two arguments exchanged
RestThreadArgs_Exchanged == [max_tries |-> retry_wait, retry_wait |-> max_tries]

\* the arguments of super(WnsThread, self).__init__(...)
RestThreadArgs == [max_tries |-> max_tries, retry_wait |-> retry_wait]

\* queue.Queue.full(): a maxsize <= 0 means an unbounded queue
QueueFull(q) == archive_queue_maxsize > 0 /\ Len(q) >= archive_queue_maxsize

\* the records the engine hands over: a plain one, and one whose date of last
\* rain is outside the range of time_t
EventRecord(kind) ==
    IF kind = "plain"
    THEN [dateTime |-> PyNum(90000000), outTemp |-> PyNum(20500)]
    ELSE [dateTime |-> PyNum(90000000), outTemp |-> PyNum(20500),
          lastRainDate |-> PyBig]

EventKinds == {"plain", "badDate"}

\* number of archive records the engine produces
MaxRecords == 6

NoRecord == [id |-> 0, kind |-> "none"]

\* Wns.new_archive_record(event), entry: put() returns at once when the queue
\* has room, and otherwise starts to wait
NewArchiveRecord ==
    /\ put_pc = "idle"
    /\ next_id <= MaxRecords
    /\ \E kind \in EventKinds :
          LET r == [id |-> next_id, kind |-> kind]
          IN  IF QueueFull(archive_queue)
              THEN /\ put_pc' = "waiting"
                   /\ put_rec' = r
                   /\ put_waited' = 0
                   /\ UNCHANGED archive_queue
              ELSE /\ archive_queue' = Append(archive_queue, r)
                   /\ UNCHANGED <<put_pc, put_rec, put_waited>>
    /\ next_id' = next_id + 1
    /\ UNCHANGED <<dropped, q_log, worker_vars, ser_vars, gts_vars, aux_vars>>

\* put() wakes up because the worker made room before the timeout
PutWakeup ==
    /\ put_pc = "waiting"
    /\ ~QueueFull(archive_queue)
    /\ archive_queue' = Append(archive_queue, put_rec)
    /\ put_pc' = "idle"
    /\ put_rec' = NoRecord
    /\ put_waited' = 0
    /\ UNCHANGED <<next_id, dropped, q_log, worker_vars, ser_vars, gts_vars, aux_vars>>

\* PutFull without the except clause's drop: the record goes on the queue
PutFull_Grow ==
    /\ put_pc = "waiting"
    /\ put_waited >= put_timeout
    /\ QueueFull(archive_queue)
    /\ archive_queue' = Append(archive_queue, put_rec)
    /\ put_pc' = "idle"
    /\ put_rec' = NoRecord
    /\ put_waited' = 0
    /\ UNCHANGED <<next_id, dropped, q_log, worker_vars, ser_vars, gts_vars, aux_vars>>

\* put() raises queue.Full after the timeout; the handler logs and returns
PutFull ==
    /\ put_pc = "waiting"
    /\ put_waited >= put_timeout
    /\ QueueFull(archive_queue)
    /\ dropped' = dropped \cup {put_rec.id}
    /\ q_log' = q_log \cup {[msg |-> "Queue is full. Thread died?", id |-> put_rec.id]}
    /\ put_pc' = "idle"
    /\ put_rec' = NoRecord
    /\ put_waited' = 0
    /\ UNCHANGED <<next_id, archive_queue, worker_vars, ser_vars, gts_vars, aux_vars>>

----------------------------------------------------------------------------
(* WnsThread as a RESTThread: the worker loop it inherits *)

\* the last finished delivery: gap is the shortest pause between two of its
\* tries, -1 when it had a single try
NoDelivery == [id |-> 0, result |-> "none", tries |-> 0, gap |-> -1]

\* format_url(record) raises when __wns_umwandeln raises
FormatUrlRaises(r) == wns_umwandeln(DATA_MAP, EventRecord(r.kind)).exc # ""

\* run_loop: take the next record off the queue
WorkerGet ==
    /\ w_pc = "get"
    /\ archive_queue # <<>>
    /\ w_rec' = Head(archive_queue)
    /\ archive_queue' = Tail(archive_queue)
    /\ w_pc' = "process"
    /\ UNCHANGED <<w_tries, w_slept, w_gap, done, producer_vars, q_log, ser_vars, gts_vars, aux_vars>>

\* process_record: get_record and format_url; an exception that is none of
\* the upload failures ends run_loop and with it the thread
WorkerProcess ==
    /\ w_pc = "process"
    /\ IF FormatUrlRaises(w_rec)
       THEN /\ w_pc' = "terminated"
            /\ done' = [id |-> w_rec.id, result |-> "crashed", tries |-> 0, gap |-> -1]
            /\ w_rec' = NoRecord
       ELSE /\ w_pc' = "post"
            /\ UNCHANGED <<done, w_rec>>
    /\ w_tries' = 0
    /\ w_gap' = -1
    /\ UNCHANGED <<w_slept, archive_queue, producer_vars, q_log, ser_vars, gts_vars, aux_vars>>

\* post_with_retries: one try; check_response adds no failure of its own
WorkerPost ==
    /\ w_pc = "post"
    /\ w_tries' = w_tries + 1
    /\ w_gap' = IF w_tries = 0 THEN -1
                ELSE IF w_gap = -1 \/ w_slept < w_gap THEN w_slept ELSE w_gap
    /\ \E success \in BOOLEAN :
          IF success
          THEN /\ done' = [id |-> w_rec.id, result |-> "sent",
                           tries |-> w_tries + 1, gap |-> w_gap']
               /\ w_rec' = NoRecord
               /\ w_pc' = "get"
               /\ UNCHANGED w_slept
          ELSE /\ w_pc' = "wait"
               /\ w_slept' = 0
               /\ UNCHANGED <<done, w_rec>>
    /\ UNCHANGED <<archive_queue, producer_vars, q_log, ser_vars, gts_vars, aux_vars>>

\* time.sleep(retry_wait) is over: try again, or give up with FailedPost,
\* which run_loop logs before it goes on to the next record
WorkerWake ==
    /\ w_pc = "wait"
    /\ w_slept >= RestThreadArgs.retry_wait
    /\ IF w_tries < RestThreadArgs.max_tries
       THEN /\ w_pc' = "post"
            /\ UNCHANGED <<done, w_rec>>
       ELSE /\ done' = [id |-> w_rec.id, result |-> "failed",
                        tries |-> w_tries, gap |-> w_gap]
            /\ w_rec' = NoRecord
            /\ w_pc' = "get"
    /\ UNCHANGED <<w_tries, w_slept, w_gap, archive_queue, producer_vars, q_log,
                   ser_vars, gts_vars, aux_vars>>

\* one second passes for whoever waits
Tick ==
    /\ put_pc = "waiting" \/ w_pc = "wait"
    /\ put_pc = "waiting" => put_waited < put_timeout
    /\ put_waited' = IF put_pc = "waiting" THEN put_waited + 1 ELSE put_waited
    /\ w_slept' = IF w_pc = "wait" /\ w_slept < RestThreadArgs.retry_wait
                  THEN w_slept + 1 ELSE w_slept
    /\ UNCHANGED <<next_id, archive_queue, put_pc, put_rec, dropped, q_log,
                   w_pc, w_rec, w_tries, w_gap, done, ser_vars, gts_vars, aux_vars>>

----------------------------------------------------------------------------
(* WnsThread.calc_gts: the Gruenlandtemperatursumme.  Timestamps are whole  *)
(* seconds, day means are whole degree_F in the archive, and the sum is    *)
(* held in hundredths of a degree_C day.  A year has 365 days; local time  *)
(* is the time of the timestamps in winter and, where the time zone has    *)
(* daylight saving, one hour ahead of it in summer.                        *)

\* Python None in the accumulator
GtsNone == -1

\* seconds of a day
DaySecs == 86400

YearSecs == 365 * DaySecs

\* last day, counted from day 0, on which a record arrives
MaxDays == 400

\* the temperature histories
HistoryIds == 1..4

\* a history on whose archive the query fails for some days
FailingHistoryIds == {5}

\* time.localtime(): daylight saving is in force from the end of March to
\* the end of October
SummerTime(ts) ==
    /\ dst
    /\ ts % YearSecs >= 88 * DaySecs + 3600
    /\ ts % YearSecs < 298 * DaySecs + 3600

\* weeutil.weeutil.startOfDay(time_ts): midnight of the local day
startOfDay(ts) ==
    IF SummerTime(ts)
    THEN ((ts + 3600) \div DaySecs) * DaySecs - 3600
    ELSE ts - (ts % DaySecs)

\* weeutil.weeutil.archiveYearSpan(time_ts)[0]: an archive record stamped
\* midnight belongs to the day, and the year, that ends there
archiveYearStart(ts) == (ts - 1) - ((ts - 1) % YearSecs)

\* no result at all, a result without a value, a mean in degree_F, or the
\* exception the query raises
NoResult == [res |-> "none", val |-> 0]
QueryRaises == [res |-> "OperationalError", val |-> 0]
NullValue == [res |-> "null", val |-> 0]
MeanF(f) == [res |-> "vt", val |-> f]

\* weewx.xtypes.get_aggregate('outTemp', TimeSpan(day, day+86400), 'avg', db)
\* on the archive of history h
get_aggregate_avg(h, day) ==
    LET d == day \div DaySecs
        y == (d % 365)
    IN  CASE h = 1 -> MeanF(50)
          [] h = 2 -> IF d % 3 = 0 THEN MeanF(23)
                      ELSE IF d % 3 = 1 THEN MeanF(41) ELSE NullValue
          [] h = 3 -> IF y < 59 THEN (IF d % 2 = 0 THEN MeanF(23) ELSE NoResult)
                      ELSE MeanF(68)
          [] h = 4 -> IF d < 365 THEN MeanF(59) ELSE MeanF(32)
          [] h = 5 -> IF d % 50 = 20 THEN QueryRaises ELSE MeanF(59)

\* weewx.units.convert(_result, 'degree_C'), in hundredths of a degree
ToCelsius(f) == ((f - 32) * 500) \div 9

\* GtsWeight with the weights of January and February exchanged
GtsWeight_Exchanged(day, feb_ts, mar_ts, dayavg) ==
    IF day < feb_ts THEN (dayavg * 75) \div 100
    ELSE IF day < mar_ts THEN (dayavg * 50) \div 100
    ELSE dayavg

\* the weight of a positive day mean
GtsWeight(day, feb_ts, mar_ts, dayavg) ==
    IF day < feb_ts THEN (dayavg * 50) \div 100
    ELSE IF day < mar_ts THEN (dayavg * 75) \div 100
    ELSE dayavg

\* the accumulator as one value
GtsState(last, value, date, loops) ==
    [last |-> last, value |-> value, date |-> date, loops |-> loops,
     days |-> <<>>, exc |-> ""]

\* GtsReset keeping the sum and the crossing day of the year before
GtsReset_KeepSum(s, soy_ts) ==
    IF s.last = GtsNone \/ s.last < soy_ts
    THEN [s EXCEPT !.last = soy_ts]
    ELSE s

\* initialize if program start or new year
GtsReset(s, soy_ts) ==
    IF s.last = GtsNone \/ s.last < soy_ts
    THEN [s EXCEPT !.last = soy_ts, !.value = GtsNone, !.date = GtsNone]
    ELSE s

\* GtsDay with the crossing day taken after the step to the next day
GtsDay_CrossingAfterStep(s, feb_ts, mar_ts, h) ==
    LET result == get_aggregate_avg(h, s.last)
        dayavg == ToCelsius(result.val)
        start == IF s.value = GtsNone THEN 0 ELSE s.value
        sum == IF dayavg > 0
               THEN start + GtsWeight(s.last, feb_ts, mar_ts, dayavg)
               ELSE start
    IN  IF result.res = "vt"
        THEN [s EXCEPT !.last = s.last + DaySecs,
                       !.value = sum,
                       !.date = IF dayavg > 0 /\ sum >= 20000 /\ s.date = GtsNone
                                THEN s.last + DaySecs ELSE s.date,
                       !.loops = s.loops + 1,
                       !.days = IF dayavg > 0 THEN Append(s.days, s.last)
                                ELSE s.days]
        ELSE IF result.res \in {"none", "null"}
             THEN [s EXCEPT !.last = s.last + DaySecs, !.loops = s.loops + 1]
             ELSE [s EXCEPT !.exc = result.res]

\* the body of the while loop: the day starting at s.last
GtsDay(s, feb_ts, mar_ts, h) ==
    LET result == get_aggregate_avg(h, s.last)
        dayavg == ToCelsius(result.val)
        start == IF s.value = GtsNone THEN 0 ELSE s.value
        sum == IF dayavg > 0
               THEN start + GtsWeight(s.last, feb_ts, mar_ts, dayavg)
               ELSE start
    IN  IF result.res = "vt"
        THEN [s EXCEPT !.last = s.last + DaySecs,
                       !.value = sum,
                       !.date = IF dayavg > 0 /\ sum >= 20000 /\ s.date = GtsNone
                                THEN s.last ELSE s.date,
                       !.loops = s.loops + 1,
                       !.days = IF dayavg > 0 THEN Append(s.days, s.last)
                                ELSE s.days]
        ELSE IF result.res \in {"none", "null"}
             THEN [s EXCEPT !.last = s.last + DaySecs, !.loops = s.loops + 1]
             ELSE [s EXCEPT !.exc = result.res]

\* _feb_ts, _mar_ts and _end_ts of the year starting at soy_ts
FebTs(soy_ts) == soy_ts + 2678400
MarTs(soy_ts) == FebTs(soy_ts) + 2419200
EndTs(soy_ts) == MarTs(soy_ts) + 7948800

\* GtsLoop as an if: at most one day per call
GtsLoop_OneDay(s, sod_ts, soy_ts, h) ==
    IF s.exc = "" /\ s.last < sod_ts /\ s.last < EndTs(soy_ts)
    THEN GtsDay(s, FebTs(soy_ts), MarTs(soy_ts), h)
    ELSE s

\* while self.last_gts_date < _sod_ts and self.last_gts_date < _end_ts
RECURSIVE GtsLoop(_, _, _, _)
GtsLoop(s, sod_ts, soy_ts, h) ==
    IF s.exc = "" /\ s.last < sod_ts /\ s.last < EndTs(soy_ts)
    THEN GtsLoop(GtsDay(s, FebTs(soy_ts), MarTs(soy_ts), h), sod_ts, soy_ts, h)
    ELSE s

\* calc_gts(time_ts, dbmanager) on the accumulator s
calc_gts(s, ts, h) ==
    GtsLoop([GtsReset(s, archiveYearStart(ts)) EXCEPT !.loops = 0],
            startOfDay(ts), archiveYearStart(ts), h)

\* the pauses between two records
RecordGaps == {DaySecs, 3 * DaySecs, 45 * DaySecs, 160 * DaySecs}

\* the days on which the program may be started again
RestartDays == {10, 40, 70, 140, 200, 380}

\* get_record calls calc_gts for the next record, gap seconds after the last
CalcGts ==
    /\ \E gap \in RecordGaps :
          /\ time_ts + gap <= MaxDays * DaySecs
          /\ time_ts' = time_ts + gap
    /\ \E s \in {calc_gts(GtsState(last_gts_date, gts_value, gts_date, 0),
                          time_ts', history)} :
          /\ last_gts_date' = s.last
          /\ gts_value' = s.value
          /\ gts_date' = s.date
          /\ gts_loops' = s.loops
          /\ gts_days' = gts_days \o s.days
          /\ gts_exc' = s.exc
    /\ UNCHANGED <<history, dst, ser_vars, queue_vars, aux_vars>>

\* the program is started again: WnsThread.__init__
Restart ==
    /\ last_gts_date # GtsNone
    /\ (time_ts \div DaySecs) \in RestartDays
    /\ last_gts_date' = GtsNone
    /\ gts_value' = GtsNone
    /\ gts_date' = GtsNone
    /\ gts_loops' = 0
    /\ gts_days' = <<>>
    /\ gts_exc' = ""
    /\ UNCHANGED <<time_ts, history, dst, ser_vars, queue_vars, aux_vars>>

----------------------------------------------------------------------------
(* WnsThread.__init__ as a step: _DATA_MAP is an attribute of the class, so *)
(* that the overrides of one object stay in the table of the next          *)

\* the values the five options take in weewx.conf: none, a str, or a value
\* that is no str
InitConfs ==
    [T5AKT_ : {CfgNone, CfgStr("None"), CfgStr("extraTemp1"), CfgInt("5")},
     SOD1D_ : {CfgNone, CfgStr("NONE"), CfgStr("sunshineDur"), CfgInt("7")},
     TSOI10 : {CfgNone, CfgStr("soilTemp1")},
     TSOI20 : {CfgNone, CfgStr("soilTemp2")},
     TSOI50 : {CfgNone, CfgStr("")}]

\* number of WnsThread objects constructed in one process
MaxInits == 2

\* the five try blocks of __init__ on the table of the class: [exc, table,
\* log].  str() raises neither ValueError nor TypeError, so that nothing is
\* ever logged; SOD1D_.lower() raises past its except clause, after the
\* entries of T5AKT_ were replaced
ThreadInit(table, c) ==
    IF OverrideSOD1DRaises(c.SOD1D_)
    THEN [exc |-> "AttributeError", log |-> <<>>,
          table |-> OverrideT5AKT(table, c.T5AKT_)]
    ELSE [exc |-> "", log |-> <<>>,
          table |-> OverrideTSOI(
                      OverrideTSOI(
                        OverrideTSOI(
                          OverrideSOD1D(OverrideT5AKT(table, c.T5AKT_), c.SOD1D_),
                          "TSOI10", c.TSOI10),
                        "TSOI20", c.TSOI20),
                      "TSOI50", c.TSOI50)]

\* WnsThread(q, **site_dict): the overrides, then the GTS attributes
WnsThreadInit ==
    /\ init_count < MaxInits
    /\ init_count' = init_count + 1
    /\ \E c \in InitConfs :
          \E r \in {ThreadInit(DATA_MAP, c)} :
             /\ conf' = c
             /\ DATA_MAP' = r.table
             /\ init_exc' = r.exc
             /\ init_log' = r.log
             /\ IF r.exc = ""
                THEN /\ last_gts_date' = GtsNone
                     /\ gts_value' = GtsNone
                     /\ gts_date' = GtsNone
                ELSE UNCHANGED <<last_gts_date, gts_value, gts_date>>
    /\ UNCHANGED <<record, ser_pc, data, ser_exc, ser_log, queue_vars,
                   gts_loops, time_ts, history, dst, gts_days,
                   gts_exc,
                   url_vars, enrich_vars>>

----------------------------------------------------------------------------
(* WnsThread.format_url: the request and what is logged of it *)

\* the API keys of two stations
ApiKeys == {"key1", "key2"}

\* the levels of weewx.debug
DebugLevels == 0..2

\* number of calls of format_url
MaxUrlCalls == 3

NoUrl == [station |-> "", api_key |-> "", body |-> <<>>]

\* '%s?var=%s;%s;%s' % (self.server_url, self.station, self.api_key, __body)
Url(key, body) == [station |-> "WNS", api_key |-> key, body |-> body]

\* format_url(record)
FormatUrl ==
    /\ url_calls < MaxUrlCalls
    /\ url_calls' = url_calls + 1
    /\ \E kind \in EventKinds :
          \E r \in {wns_umwandeln(DATA_MAP, EventRecord(kind))} :
             IF r.exc # ""
             THEN /\ url' = NoUrl
                  /\ UNCHANGED url_log
             ELSE /\ url' = Url(api_key, r.data)
                  /\ url_log' =
                        IF log_url
                        THEN Append(url_log, [level |-> "info", url |-> url'])
                        ELSE IF debug >= 2
                             THEN Append(url_log, [level |-> "debug", url |-> url'])
                             ELSE url_log
    /\ UNCHANGED <<api_key, log_url, debug, ser_vars, queue_vars, gts_vars,
                   init_vars, enrich_vars>>

----------------------------------------------------------------------------
(* calc_gts for records in any order of their timestamps *)

\* the timestamps of the records: two of one day, days of the three weights
\* (one of them half an hour before midnight winter time),
\* a day after the cutoff and days of the year after
CallTimes ==
    {2 * DaySecs + 300, 2 * DaySecs + 7200, 25 * DaySecs + 300,
     40 * DaySecs + 300, 100 * DaySecs - 1800, 100 * DaySecs + 300,
     200 * DaySecs + 300,
     366 * DaySecs + 300, 390 * DaySecs + 300}

\* get_record calls calc_gts for a record with any of the timestamps
CalcGtsAt ==
    /\ \E ts \in CallTimes : time_ts' = ts
    /\ \E s \in {calc_gts(GtsState(last_gts_date, gts_value, gts_date, 0),
                          time_ts', history)} :
          /\ last_gts_date' = s.last
          /\ gts_value' = s.value
          /\ gts_date' = s.date
          /\ gts_loops' = s.loops
          /\ gts_days' = gts_days \o s.days
          /\ gts_exc' = s.exc
    /\ UNCHANGED <<history, dst, ser_vars, queue_vars, aux_vars>>

----------------------------------------------------------------------------
(* WnsThread.get_record: the record of the parent class augmented from the *)
(* archive.  A value of _datadict is held as its origin: "input" for the  *)
(* value the record came with, "archive" for a value read from the        *)
(* archive, "absent" for a key that is not in _datadict.  The record has  *)
(* dateTime and usUnits, as every record of the parent class has.         *)

\* Python None for a timestamp
NoneTs == GtsNone

\* the keys get_record sets from one query each, in the order of the code
DayKeys == {"outTempDayMin", "outTempDayMax", "windchillDayMin", "UVDayMax"}
Ago1Keys == {"outTemp1h", "barometer1h", "pressure1h"}
Agg1hKeys == {"windchill1hMin", "radiation1hMax"}
RainKeys == <<"yesterdayRain", "monthRain", "yearRain", "rain3", "rain10m">>
ETKeys == <<"dayET", "monthET", "yearET">>

\* __rky = "%s%s%s" % (__obs,__tim,__agg.capitalize())
AggKey(v) == Obs(v) \o Tim(v) \o Capitalize(Agg(v))

\* the keys the loop over _DATA_MAP sets
WindowKeys(table) ==
    {AggKey(table[i]) : i \in {j \in 1..Len(table) :
                                 Tim(table[j]) # "" /\ Agg(table[j]) # ""}}

Range(seq) == {seq[i] : i \in 1..Len(seq)}

\* every key get_record can set
EnrichKeys ==
    DayKeys \cup Ago1Keys \cup Agg1hKeys
    \cup {"lastRainDate", "radiationYesterdayIntegral", "GTS", "GTSdate",
          "outTempMonthAvg"}
    \cup Range(RainKeys) \cup Range(ETKeys) \cup WindowKeys(DEFAULT_DATA_MAP)

\* _datadict without any of the keys
NoDatadict == [k \in EnrichKeys |-> "absent"]

\* dict(record) of a record with the keys present
Datadict(present) ==
    [k \in EnrichKeys |-> IF k \in present THEN "input" ELSE "absent"]

\* the queries of get_record, by what they select, without the queries of
\* calc_gts
SqlQueries ==
    {"MIN(dateTime)", "MAX(dateTime)", "DayMinMax", "Ago1Row", "Agg1h",
     "lastRainDate", "radiationYesterdayIntegral"}
AggregateQueries ==
    {"outTempMonthAvg"} \cup Range(RainKeys) \cup Range(ETKeys)
    \cup WindowKeys(DEFAULT_DATA_MAP)

\* the result of cursor.fetchone(): a row, or None when row is FALSE
SqlRow(v) == [row |-> TRUE, val |-> v]

SetMin(S) == CHOOSE x \in S : \A y \in S : x <= y
SetMax(S) == CHOOSE x \in S : \A y \in S : x >= y

\* getSql("SELECT MIN(dateTime) FROM archive WHERE dateTime>=? AND
\* dateTime<=?", (lo, hi)): an aggregate without GROUP BY has one row, whose
\* value is NULL when no record matches
SelectMinDateTime(arch, lo, hi) ==
    LET S == {t \in arch : t >= lo /\ t <= hi}
    IN  SqlRow(IF S = {} THEN NoneTs ELSE SetMin(S))

\* getSql("SELECT MAX(dateTime) FROM archive WHERE dateTime>=? AND
\* dateTime<=?", (lo, hi))
SelectMaxDateTime(arch, lo, hi) ==
    LET S == {t \in arch : t >= lo /\ t <= hi}
    IN  SqlRow(IF S = {} THEN NoneTs ELSE SetMax(S))

\* the locals of get_record: _datadict, the queries made, _ago1_ts, the
\* accumulator of calc_gts, the exception being raised and the log
RecState(present, gts) ==
    [d |-> Datadict(present), q |-> <<>>, ago |-> NoneTs, gts |-> gts,
     raised |-> "", log |-> <<>>]

\* a call of dbmanager.getSql or weewx.xtypes.get_aggregate for query q; c
\* is the archive: c.archive, c.fault, c.history, and the record's c.ts
Query(c, s, q) ==
    IF c.fault = q
    THEN [s EXCEPT !.q = Append(@, q), !.raised = "OperationalError"]
    ELSE [s EXCEPT !.q = Append(@, q)]

\* _datadict[k] = value, for every k of keys
SetKeys(s, keys) ==
    [s EXCEPT !.d = [k \in EnrichKeys |->
                        IF k \in keys THEN "archive" ELSE s.d[k]]]

\* if k not in _datadict: _datadict[k] = value, for every k of keys
SetAbsentKeys(s, keys) ==
    SetKeys(s, {k \in keys : s.d[k] = "absent"})

\* an except clause for the classes of caught
Except(s, caught, msg) ==
    IF s.raised \in caught
    THEN [s EXCEPT !.raised = "", !.log = Append(@, msg)]
    ELSE s

\* 1 hour ago: the try statement of lines 590-605
Ago1Lookup(c, s) ==
    LET s1 == Query(c, s, "MIN(dateTime)")
        r1 == SelectMinDateTime(c.archive, c.ts - 3600, c.ts - 3300)
        s2 == Query(c, s1, "MAX(dateTime)")
        r2 == SelectMaxDateTime(c.archive, c.ts - 3900, c.ts - 3600)
    IN  IF s1.raised # ""
        THEN [s1 EXCEPT !.raised = "", !.ago = NoneTs]
        ELSE IF ~r1.row
             THEN IF s2.raised # ""
                  THEN [s2 EXCEPT !.raised = "", !.ago = NoneTs]
                  ELSE [s2 EXCEPT !.ago = IF r2.row THEN r2.val ELSE NoneTs]
             ELSE [s1 EXCEPT !.ago = r1.val]

\* the statements of the try of lines 632-682, each left out once an
\* exception is being raised
DayMinMax(c, s) ==
    IF s.raised = "" /\ s.d["outTempDayMax"] = "absent" /\ startOfDay(c.ts) < c.ts
    THEN LET s1 == Query(c, s, "DayMinMax")
         IN  IF s1.raised = "" THEN SetKeys(s1, DayKeys) ELSE s1
    ELSE s

Ago1Row(c, s) ==
    IF s.raised = "" /\ s.ago # NoneTs
    THEN LET s1 == Query(c, s, "Ago1Row")
         IN  IF s1.raised = "" /\ s.ago \in c.archive
             THEN SetAbsentKeys(s1, Ago1Keys)
             ELSE s1
    ELSE s

Agg1h(c, s) ==
    IF s.raised = "" /\ s.ago # NoneTs
    THEN LET s1 == Query(c, s, "Agg1h")
         IN  IF s1.raised = "" THEN SetAbsentKeys(s1, Agg1hKeys) ELSE s1
    ELSE s

LastRainDate(c, s) ==
    IF s.raised = ""
    THEN LET s1 == Query(c, s, "lastRainDate")
         IN  IF s1.raised = "" THEN SetAbsentKeys(s1, {"lastRainDate"}) ELSE s1
    ELSE s

\* the try statement of lines 632-682
ArchiveBlock(c, s) ==
    Except(
      Except(LastRainDate(c, Agg1h(c, Ago1Row(c, DayMinMax(c, s)))),
             {"OperationalError"}, "Database OperationalError"),
      {"ValueError", "TypeError"}, "")

\* calc_radiation_integral(yesterdaytimespan, dbmanager) and lines 686-688
RadiationIntegral(c, s) ==
    LET s1 == Query(c, s, "radiationYesterdayIntegral")
    IN  IF s1.raised = ""
        THEN SetKeys(s1, {"radiationYesterdayIntegral"})
        ELSE Except(Except(s1, {"OperationalError"},
                           "calculate radiation integral"),
                    {"ValueError", "TypeError"},
                    "calculate radiation integral")

\* Gruenlandtemperatursumme: lines 691-701
GtsBlock(c, s) ==
    IF s.d["GTS"] = "absent"
    THEN LET g == calc_gts([s.gts EXCEPT !.exc = "", !.days = <<>>], c.ts,
                           c.history)
             s1 == [s EXCEPT !.gts = g,
                             !.q = IF g.loops > 0 \/ g.exc # ""
                                   THEN Append(@, "GTS") ELSE @,
                             !.raised = g.exc]
             s2 == IF g.value # GtsNone THEN SetKeys(s1, {"GTS"}) ELSE s1
             s3 == IF g.date # GtsNone THEN SetKeys(s2, {"GTSdate"}) ELSE s2
         IN  IF s1.raised = ""
             THEN s3
             ELSE Except(s1, {"ValueError", "TypeError", "IndexError"}, "GTS")
    ELSE s

\* temperature average of the month: lines 703-708
MonthAvg(c, s) ==
    IF s.raised = ""
    THEN LET s1 == Query(c, s, "outTempMonthAvg")
         IN  IF s1.raised = ""
             THEN SetKeys(s1, {"outTempMonthAvg"})
             ELSE [s1 EXCEPT !.raised = "", !.log = Append(@, "outTempMonthAvg")]
    ELSE s

\* the if statements of one try, for the keys of a sequence from the i-th on
RECURSIVE SumsFrom(_, _, _, _)
SumsFrom(c, s, keys, i) ==
    IF i > Len(keys) \/ s.raised # ""
    THEN s
    ELSE IF s.d[keys[i]] = "absent"
         THEN LET s1 == Query(c, s, keys[i])
              IN  SumsFrom(c, IF s1.raised = "" THEN SetKeys(s1, {keys[i]})
                              ELSE s1,
                           keys, i + 1)
         ELSE SumsFrom(c, s, keys, i + 1)

\* the rain sums, lines 710-734, and the evapotranspiration sums, lines
\* 736-750: one try with except Exception each
SumsBlock(c, s, keys, msg) ==
    IF s.raised = ""
    THEN LET s1 == SumsFrom(c, s, keys, 1)
         IN  IF s1.raised = "" THEN s1
             ELSE [s1 EXCEPT !.raised = "", !.log = Append(@, msg)]
    ELSE s

\* aggregation values: the loop over _DATA_MAP from entry i on
RECURSIVE AggLoop(_, _, _, _)
AggLoop(c, s, table, i) ==
    IF i > Len(table) \/ s.raised # ""
    THEN s
    ELSE LET v == table[i]
             rky == AggKey(v)
             s1 == Query(c, s, rky)
         IN  IF Tim(v) # "" /\ Agg(v) # "" /\ s.d[rky] = "absent"
             THEN AggLoop(c,
                          IF s1.raised = "" THEN SetKeys(s1, {rky})
                          ELSE [s1 EXCEPT !.raised = "", !.log = Append(@, rky)],
                          table, i + 1)
             ELSE AggLoop(c, s, table, i + 1)

\* get_record(record, dbmanager) after the call of the parent class
get_record(c, present, gts, table) ==
    AggLoop(c,
      SumsBlock(c,
        SumsBlock(c,
          MonthAvg(c,
            GtsBlock(c,
              RadiationIntegral(c,
                ArchiveBlock(c,
                  Ago1Lookup(c, RecState(present, gts)))))),
          RainKeys, "rain"),
        ETKeys, "ET"),
      table, 1)

\* the timestamps of the records: a midnight and five minutes after it
RecordTimes == {60 * DaySecs, 60 * DaySecs + 300}

\* seconds before the record at which the archive may hold a record
ArchiveOffsets == {3450, 3600, 3700}

\* the records get_record is called with: none of the keys, all of them, or
\* one of them
InputRecords == {{}, EnrichKeys} \cup {{k} : k \in EnrichKeys}

\* the queries on which the database may raise
DbFaults == (SqlQueries \ {"MAX(dateTime)"}) \cup AggregateQueries

\* the histories of the archive: one that answers, one whose query raises
RecordHistories == {1} \cup FailingHistoryIds

\* the archive get_record reads
Storage == [archive |-> archive, fault |-> db_fault, history |-> history,
            ts |-> time_ts]

\* one call of get_record
GetRecord ==
    /\ rec_calls = 0
    /\ rec_calls' = 1
    /\ \E s \in {get_record(Storage, in_record,
                            GtsState(last_gts_date, gts_value, gts_date, 0),
                            DATA_MAP)} :
          /\ datadict' = IF s.raised = "" THEN s.d ELSE NoDatadict
          /\ queries' = s.q
          /\ rec_exc' = s.raised
          /\ ago1_ts' = s.ago
          /\ last_gts_date' = s.gts.last
          /\ gts_value' = s.gts.value
          /\ gts_date' = s.gts.date
          /\ gts_loops' = s.gts.loops
          /\ gts_days' = gts_days \o s.gts.days
          /\ gts_exc' = s.gts.exc
    /\ UNCHANGED <<in_record, archive, db_fault, time_ts, history, dst,
                   ser_vars, queue_vars, init_vars, url_vars>>
----------------------------------------------------------------------------
(* Specifications *)

\* the serializer on one record, for every record and configuration of the
\* model
InitSerializer ==
    /\ conf \in SerializerConfs
    /\ DATA_MAP = ThreadInitTable(conf)
    /\ \E dt \in FieldValues.dateTime, ot \in FieldValues.outTemp,
          o1 \in FieldValues.outTemp1h, ba \in FieldValues.barometer,
          b1 \in FieldValues.barometer1h,
          s1 \in IF conf = NoOverrides THEN {Absent, PyNum(3660000)}
                 ELSE FieldValues.sunshineDur1hSum,
          sd \in FieldValues.sunshineDurDaySum, lr \in FieldValues.lastRainDate,
          ws \in FieldValues.windSpeed1hMax :
          record = MakeRecord([dateTime |-> dt, outTemp |-> ot, outTemp1h |-> o1,
                               barometer |-> ba, barometer1h |-> b1,
                               sunshineDur1hSum |-> s1, sunshineDurDaySum |-> sd,
                               lastRainDate |-> lr, windSpeed1hMax |-> ws])
    /\ ser_pc = "ready"
    /\ data = <<>>
    /\ ser_exc = ""
    /\ ser_log = <<>>
    /\ archive_queue = <<>>
    /\ next_id = 1
    /\ put_pc = "idle"
    /\ put_rec = NoRecord
    /\ put_waited = 0
    /\ dropped = {}
    /\ q_log = {}
    /\ w_pc = "get"
    /\ w_rec = NoRecord
    /\ w_tries = 0
    /\ w_slept = 0
    /\ w_gap = -1
    /\ done = NoDelivery
    /\ last_gts_date = GtsNone
    /\ gts_value = GtsNone
    /\ gts_date = GtsNone
    /\ gts_loops = 0
    /\ time_ts = 0
    /\ history = 1
    /\ dst = FALSE
    /\ gts_days = <<>>
    /\ gts_exc = ""
    /\ init_count = 1
    /\ init_exc = ""
    /\ init_log = <<>>
    /\ in_record = {}
    /\ archive = {}
    /\ db_fault = ""
    /\ datadict = NoDatadict
    /\ queries = <<>>
    /\ rec_exc = ""
    /\ ago1_ts = GtsNone
    /\ rec_calls = 0
    /\ api_key = "key1"
    /\ log_url = FALSE
    /\ debug = 0
    /\ url = NoUrl
    /\ url_log = <<>>
    /\ url_calls = 0

NextSerializer == WnsUmwandeln

SpecSerializer == InitSerializer /\ [][NextSerializer]_vars

\* the engine's callback, the queue and the worker, after construction
Init ==
    /\ conf = NoOverrides
    /\ DATA_MAP = ThreadInitTable(conf)
    /\ record = [dateTime |-> PyNum(90000000)]
    /\ ser_pc = "ready"
    /\ data = <<>>
    /\ ser_exc = ""
    /\ ser_log = <<>>
    /\ archive_queue = <<>>
    /\ next_id = 1
    /\ put_pc = "idle"
    /\ put_rec = NoRecord
    /\ put_waited = 0
    /\ dropped = {}
    /\ q_log = {}
    /\ w_pc = "get"
    /\ w_rec = NoRecord
    /\ w_tries = 0
    /\ w_slept = 0
    /\ w_gap = -1
    /\ done = NoDelivery
    /\ last_gts_date = GtsNone
    /\ gts_value = GtsNone
    /\ gts_date = GtsNone
    /\ gts_loops = 0
    /\ time_ts = 0
    /\ history = 1
    /\ dst = FALSE
    /\ gts_days = <<>>
    /\ gts_exc = ""
    /\ init_count = 1
    /\ init_exc = ""
    /\ init_log = <<>>
    /\ in_record = {}
    /\ archive = {}
    /\ db_fault = ""
    /\ datadict = NoDatadict
    /\ queries = <<>>
    /\ rec_exc = ""
    /\ ago1_ts = GtsNone
    /\ rec_calls = 0
    /\ api_key = "key1"
    /\ log_url = FALSE
    /\ debug = 0
    /\ url = NoUrl
    /\ url_log = <<>>
    /\ url_calls = 0

Next ==
    \/ NewArchiveRecord
    \/ PutWakeup
    \/ PutFull
    \/ WorkerGet
    \/ WorkerProcess
    \/ WorkerPost
    \/ WorkerWake
    \/ Tick

Spec == Init /\ [][Next]_vars

\* calc_gts over the records of up to MaxDays days, for every history
InitGts ==
    /\ conf = NoOverrides
    /\ DATA_MAP = ThreadInitTable(conf)
    /\ record = [dateTime |-> PyNum(90000000)]
    /\ ser_pc = "ready"
    /\ data = <<>>
    /\ ser_exc = ""
    /\ ser_log = <<>>
    /\ archive_queue = <<>>
    /\ next_id = 1
    /\ put_pc = "idle"
    /\ put_rec = NoRecord
    /\ put_waited = 0
    /\ dropped = {}
    /\ q_log = {}
    /\ w_pc = "get"
    /\ w_rec = NoRecord
    /\ w_tries = 0
    /\ w_slept = 0
    /\ w_gap = -1
    /\ done = NoDelivery
    /\ last_gts_date = GtsNone
    /\ gts_value = GtsNone
    /\ gts_date = GtsNone
    /\ gts_loops = 0
    /\ time_ts \in {0, 300}
    /\ history \in HistoryIds
    /\ dst \in BOOLEAN
    /\ gts_days = <<>>
    /\ gts_exc = ""
    /\ init_count = 1
    /\ init_exc = ""
    /\ init_log = <<>>
    /\ in_record = {}
    /\ archive = {}
    /\ db_fault = ""
    /\ datadict = NoDatadict
    /\ queries = <<>>
    /\ rec_exc = ""
    /\ ago1_ts = GtsNone
    /\ rec_calls = 0
    /\ api_key = "key1"
    /\ log_url = FALSE
    /\ debug = 0
    /\ url = NoUrl
    /\ url_log = <<>>
    /\ url_calls = 0

NextGts ==
    \/ CalcGts
    \/ Restart

SpecGts == InitGts /\ [][NextGts]_vars

\* the WnsThread objects constructed in one process, from the import of the
\* module on
InitThread ==
    /\ conf = NoOverrides
    /\ DATA_MAP = DEFAULT_DATA_MAP
    /\ record = [dateTime |-> PyNum(90000000)]
    /\ ser_pc = "ready"
    /\ data = <<>>
    /\ ser_exc = ""
    /\ ser_log = <<>>
    /\ archive_queue = <<>>
    /\ next_id = 1
    /\ put_pc = "idle"
    /\ put_rec = NoRecord
    /\ put_waited = 0
    /\ dropped = {}
    /\ q_log = {}
    /\ w_pc = "get"
    /\ w_rec = NoRecord
    /\ w_tries = 0
    /\ w_slept = 0
    /\ w_gap = -1
    /\ done = NoDelivery
    /\ last_gts_date = GtsNone
    /\ gts_value = GtsNone
    /\ gts_date = GtsNone
    /\ gts_loops = 0
    /\ time_ts = 0
    /\ history = 1
    /\ dst = FALSE
    /\ gts_days = <<>>
    /\ gts_exc = ""
    /\ init_count = 0
    /\ init_exc = ""
    /\ init_log = <<>>
    /\ in_record = {}
    /\ archive = {}
    /\ db_fault = ""
    /\ datadict = NoDatadict
    /\ queries = <<>>
    /\ rec_exc = ""
    /\ ago1_ts = GtsNone
    /\ rec_calls = 0
    /\ api_key = "key1"
    /\ log_url = FALSE
    /\ debug = 0
    /\ url = NoUrl
    /\ url_log = <<>>
    /\ url_calls = 0

NextThread == WnsThreadInit

SpecThread == InitThread /\ [][NextThread]_vars

\* format_url for every API key, log_url flag and debug level
InitUrl ==
    /\ conf = NoOverrides
    /\ DATA_MAP = ThreadInitTable(conf)
    /\ record = [dateTime |-> PyNum(90000000)]
    /\ ser_pc = "ready"
    /\ data = <<>>
    /\ ser_exc = ""
    /\ ser_log = <<>>
    /\ archive_queue = <<>>
    /\ next_id = 1
    /\ put_pc = "idle"
    /\ put_rec = NoRecord
    /\ put_waited = 0
    /\ dropped = {}
    /\ q_log = {}
    /\ w_pc = "get"
    /\ w_rec = NoRecord
    /\ w_tries = 0
    /\ w_slept = 0
    /\ w_gap = -1
    /\ done = NoDelivery
    /\ last_gts_date = GtsNone
    /\ gts_value = GtsNone
    /\ gts_date = GtsNone
    /\ gts_loops = 0
    /\ time_ts = 0
    /\ history = 1
    /\ dst = FALSE
    /\ gts_days = <<>>
    /\ gts_exc = ""
    /\ init_count = 1
    /\ init_exc = ""
    /\ init_log = <<>>
    /\ in_record = {}
    /\ archive = {}
    /\ db_fault = ""
    /\ datadict = NoDatadict
    /\ queries = <<>>
    /\ rec_exc = ""
    /\ ago1_ts = GtsNone
    /\ rec_calls = 0
    /\ api_key \in ApiKeys
    /\ log_url \in BOOLEAN
    /\ debug \in DebugLevels
    /\ url = NoUrl
    /\ url_log = <<>>
    /\ url_calls = 0

NextUrl == FormatUrl

SpecUrl == InitUrl /\ [][NextUrl]_vars

\* calc_gts within one process for records in any order, for every history
InitGtsCalls ==
    /\ conf = NoOverrides
    /\ DATA_MAP = ThreadInitTable(conf)
    /\ record = [dateTime |-> PyNum(90000000)]
    /\ ser_pc = "ready"
    /\ data = <<>>
    /\ ser_exc = ""
    /\ ser_log = <<>>
    /\ archive_queue = <<>>
    /\ next_id = 1
    /\ put_pc = "idle"
    /\ put_rec = NoRecord
    /\ put_waited = 0
    /\ dropped = {}
    /\ q_log = {}
    /\ w_pc = "get"
    /\ w_rec = NoRecord
    /\ w_tries = 0
    /\ w_slept = 0
    /\ w_gap = -1
    /\ done = NoDelivery
    /\ last_gts_date = GtsNone
    /\ gts_value = GtsNone
    /\ gts_date = GtsNone
    /\ gts_loops = 0
    /\ time_ts = 0
    /\ history \in HistoryIds \cup FailingHistoryIds
    /\ dst \in BOOLEAN
    /\ gts_days = <<>>
    /\ gts_exc = ""
    /\ init_count = 1
    /\ init_exc = ""
    /\ init_log = <<>>
    /\ in_record = {}
    /\ archive = {}
    /\ db_fault = ""
    /\ datadict = NoDatadict
    /\ queries = <<>>
    /\ rec_exc = ""
    /\ ago1_ts = GtsNone
    /\ rec_calls = 0
    /\ api_key = "key1"
    /\ log_url = FALSE
    /\ debug = 0
    /\ url = NoUrl
    /\ url_log = <<>>
    /\ url_calls = 0

NextGtsCalls == CalcGtsAt

SpecGtsCalls == InitGtsCalls /\ [][NextGtsCalls]_vars

\* get_record on one record, for every record, archive and failing query of
\* the model
InitEnrich ==
    /\ conf = NoOverrides
    /\ DATA_MAP = ThreadInitTable(conf)
    /\ record = [dateTime |-> PyNum(90000000)]
    /\ ser_pc = "ready"
    /\ data = <<>>
    /\ ser_exc = ""
    /\ ser_log = <<>>
    /\ archive_queue = <<>>
    /\ next_id = 1
    /\ put_pc = "idle"
    /\ put_rec = NoRecord
    /\ put_waited = 0
    /\ dropped = {}
    /\ q_log = {}
    /\ w_pc = "get"
    /\ w_rec = NoRecord
    /\ w_tries = 0
    /\ w_slept = 0
    /\ w_gap = -1
    /\ done = NoDelivery
    /\ last_gts_date = GtsNone
    /\ gts_value = GtsNone
    /\ gts_date = GtsNone
    /\ gts_loops = 0
    /\ time_ts \in RecordTimes
    /\ history \in RecordHistories
    /\ dst = FALSE
    /\ gts_days = <<>>
    /\ gts_exc = ""
    /\ init_count = 1
    /\ init_exc = ""
    /\ init_log = <<>>
    /\ in_record \in InputRecords
    /\ archive \in {{time_ts - o : o \in S} : S \in SUBSET ArchiveOffsets}
    /\ db_fault \in {""} \cup DbFaults
    /\ datadict = NoDatadict
    /\ queries = <<>>
    /\ rec_exc = ""
    /\ ago1_ts = GtsNone
    /\ rec_calls = 0
    /\ api_key = "key1"
    /\ log_url = FALSE
    /\ debug = 0
    /\ url = NoUrl
    /\ url_log = <<>>
    /\ url_calls = 0

NextEnrich == GetRecord

SpecEnrich == InitEnrich /\ [][NextEnrich]_vars

----------------------------------------------------------------------------
(* Serializer properties *)

\* position in the table of the entry with wire key key
IndexOfKey(key) == CHOOSE i \in 1..Len(DATA_MAP) : Key(DATA_MAP[i]) = key

HeaderCount == Len(Header(record))

\* the token the i-th entry stands for, taken alone
EntryToken(rec, i) ==
    IF rec[Rkey(DATA_MAP[i])].t = "none" THEN Placeholder
    ELSE LET f == FieldToken(DATA_MAP[i], rec)
         IN  IF f.exc = "" THEN f.tok ELSE Placeholder

\* C1 (as claimed): for every record with a dateTime, whatever fields are
\* missing, null or malformed, the serializer returns 5 header tokens and then
\* exactly one token per table entry, the i-th token being that of the i-th
\* entry.
C1_FixedColumnCount ==
    ser_pc # "ready" =>
        /\ ser_pc = "returned"
        /\ Len(data) = 5 + Len(DATA_MAP)
        /\ SubSeq(data, 1, 5) = Header(record)
        /\ \A i \in 1..Len(DATA_MAP) :
              LET m == RecordM(record).rec
              IN  data[5 + i] = IF Rkey(DATA_MAP[i]) \in DOMAIN m
                                THEN EntryToken(m, i) ELSE Placeholder

\* C2 (as claimed): the token of an entry is the placeholder if and only if
\* its lookup key is absent from the metric record or maps to null.
C2_PlaceholderIffAbsentOrNull ==
    ser_pc = "returned" =>
        \A i \in 1..Len(DATA_MAP) :
            LET m == RecordM(record).rec
                rkey == Rkey(DATA_MAP[i])
            IN  (data[5 + i] = Placeholder) <=>
                    (rkey \notin DOMAIN m \/ m[rkey] = PyNone)

\* C2 (amended): in every token list the serializer builds, an entry whose
\* lookup key is absent from the metric record or maps to null has the
\* placeholder as its token (the placeholder is also the token of a value
\* whose conversion fails).
C2_AbsentOrNullIsPlaceholder ==
    ser_pc # "ready" =>
        \A i \in 1..(Len(data) - 5) :
            LET m == RecordM(record).rec
                rkey == Rkey(DATA_MAP[i])
            IN  (rkey \notin DOMAIN m \/ m[rkey] = PyNone) =>
                    data[5 + i] = Placeholder

\* a null date of last rain and an absent wind maximum both give the
\* placeholder beside a formatted temperature
C2_Witness ==
    /\ ser_pc = "returned"
    /\ "lastRainDate" \in DOMAIN record /\ record["lastRainDate"] = PyNone
    /\ data[5 + IndexOfKey("RRDATU")] = Placeholder
    /\ "windSpeed1hMax" \notin DOMAIN record
    /\ data[5 + IndexOfKey("WSMX1H")] = Placeholder
    /\ "outTemp" \in DOMAIN record
    /\ data[5 + IndexOfKey("T2AKT_")] = Tok("num", 1, 205)

\* the record without the archive column rkey
Without(rec, rkey) == [k \in DOMAIN rec \ {rkey} |-> rec[k]]

\* C3 (as claimed): when converting or formatting the value of one entry
\* raises any exception, that entry's token is the placeholder, the failure is
\* logged with the wire key and the source key, the serializer still returns
\* the complete token list, and the tokens of the other entries are those of
\* the record without that field.
C3_PerFieldIsolation ==
    (ser_pc # "ready" /\ RecordM(record).exc = "") =>
        \A i \in 1..Len(DATA_MAP) :
            LET m == RecordM(record).rec
                v == DATA_MAP[i]
            IN  (HasValue(m, Rkey(v)) /\ FieldToken(v, m).exc # "") =>
                    /\ ser_pc = "returned"
                    /\ Len(data) = 5 + Len(DATA_MAP)
                    /\ data[5 + i] = Placeholder
                    /\ \E k \in 1..Len(ser_log) :
                          /\ ser_log[k].key = Key(v)
                          /\ ser_log[k].rkey = Rkey(v)
                    /\ \A j \in 1..Len(DATA_MAP) :
                          Rkey(DATA_MAP[j]) # Rkey(v) =>
                              data[5 + j] =
                                  wns_umwandeln(DATA_MAP, Without(record, Rkey(v))).data[5 + j]

\* minutes (in thousandths) of the sunshine duration the record holds in seconds
SunshineMinutes == record["sunshineDur1hSum"].v \div 60

\* C10: for the hourly sunshine field SOD1H_ with the value v in minutes,
\* v > 65 is an error (logged, token --), 60 < v <= 65 is serialized as 60.0
\* and v <= 60 is serialized unchanged.
C10_SunshineClamp ==
    LET i == IndexOfKey("SOD1H_")
    IN  (/\ Len(data) >= 5 + i
         /\ Rkey(DATA_MAP[i]) = "sunshineDur1hSum"
         /\ "sunshineDur1hSum" \in DOMAIN record
         /\ record["sunshineDur1hSum"].t = "num") =>
            /\ SunshineMinutes > 65000 =>
                  /\ data[5 + i] = Placeholder
                  /\ \E k \in 1..Len(ser_log) :
                        ser_log[k] = LogEntry("SOD1H_", "sunshineDur1hSum", "ValueError")
            /\ (SunshineMinutes > 60000 /\ SunshineMinutes <= 65000) =>
                  data[5 + i] = Tok("num", 1, 600)
            /\ SunshineMinutes <= 60000 =>
                  data[5 + i] = Tok("num", 1, RoundHalfEven(SunshineMinutes, 100))

\* 61 minutes of sunshine in the last hour are sent as 60.0
C10_Witness ==
    /\ ser_pc = "returned"
    /\ "sunshineDur1hSum" \in DOMAIN record
    /\ record["sunshineDur1hSum"] = PyNum(3660000)
    /\ Rkey(DATA_MAP[IndexOfKey("SOD1H_")]) = "sunshineDur1hSum"
    /\ data[5 + IndexOfKey("SOD1H_")] = Tok("num", 1, 600)

----------------------------------------------------------------------------
(* Queue and delivery properties *)

\* the ids of the records in the queue
QueuedIds == {archive_queue[i].id : i \in DOMAIN archive_queue}

\* C4: the handler puts the record on the queue of 5 with a timeout of 10 s;
\* when the queue stays full it drops the record, logs an error and returns.
\* Whatever the worker does, the handler can go on once the timeout is over,
\* the queue never holds more than 5 records and a dropped record is never
\* in the queue, with the worker or delivered afterwards.
C4_ProducerBackpressure ==
    /\ Len(archive_queue) <= 5
    /\ put_waited <= 10
    /\ put_pc = "waiting" /\ put_waited >= 10 => ENABLED (PutFull \/ PutWakeup)
    /\ put_pc = "idle" => put_rec = NoRecord
    /\ \A id \in dropped :
          /\ id \notin QueuedIds
          /\ id # w_rec.id
          /\ id # put_rec.id
          /\ id # done.id
          /\ \E l \in q_log : l.id = id

\* a record dropped in front of a full queue, the handler back with the
\* engine
C4_Witness ==
    /\ dropped # {}
    /\ Len(archive_queue) = 5
    /\ put_pc = "idle"

\* C5: a record whose every try fails gets exactly 3 tries, 5 s apart, and
\* is then given up; a try that succeeds is the last one; a record that is
\* finished is never queued or tried again.
C5_RetryExhaustion ==
    /\ w_tries <= 3
    /\ done.result = "failed" => done.tries = 3 /\ done.gap >= 5
    /\ done.result = "sent" =>
          /\ done.tries \in 1..3
          /\ done.tries > 1 => done.gap >= 5
    /\ done.id # 0 =>
          /\ done.id \notin QueuedIds
          /\ done.id # w_rec.id
          /\ done.id # put_rec.id
    /\ w_pc \in {"post", "wait"} => w_rec # NoRecord

\* a record given up after its third try
C5_Witness ==
    /\ done.result = "failed"
    /\ done.tries = 3
    /\ done.gap = 5
    /\ w_pc = "get"

\* C6: the worker takes the records in the order of their arrival, one at a
\* time, and what happens to one record leaves the others alone: no accepted
\* record is left behind by a worker that the record before it has stopped.
C6_FifoIsolation ==
    /\ \A i, j \in DOMAIN archive_queue :
          i < j => archive_queue[i].id < archive_queue[j].id
    /\ \A id \in QueuedIds : done.id < id /\ w_rec.id < id
    /\ w_rec # NoRecord => done.id < w_rec.id
    /\ w_pc = "terminated" => archive_queue = <<>> /\ put_pc = "idle"

----------------------------------------------------------------------------
(* Accumulator properties *)

\* a step that is a call of calc_gts
GtsCall == time_ts' # time_ts

\* calc_gts once a day, n days running from the record stamped t
RECURSIVE DailyCalls(_, _, _, _)
DailyCalls(s, t, n, h) ==
    IF n = 0 THEN s
    ELSE IF n = 1 THEN calc_gts(s, t, h)
    ELSE CHOOSE r \in {DailyCalls(m, t + (n \div 2) * DaySecs, n - (n \div 2), h) :
                            m \in {DailyCalls(s, t, n \div 2, h)}} : TRUE

\* the accumulator of a program started at the beginning of the year of ts
\* that has seen one record a day, at the time of day of ts, up to ts
DailyReplay(ts, h) ==
    LET whole == (ts - 1 - archiveYearStart(ts)) \div DaySecs
    IN  DailyCalls(GtsState(GtsNone, GtsNone, GtsNone, 0),
                   ts - whole * DaySecs, whole + 1, h)

\* C7: for a fixed history of day means within one calendar year, a call of
\* calc_gts after a gap of any number of days leaves the accumulator (sum,
\* last processed day, crossing day) as one call on each day would.
C7_CatchUpEquivalence ==
    last_gts_date # GtsNone =>
        LET r == DailyReplay(time_ts, history)
        IN  /\ last_gts_date = r.last
            /\ gts_value = r.value
            /\ gts_date = r.date

\* a call that caught up on several days and crossed 200 degree days
C7_Witness ==
    /\ gts_loops > 1
    /\ gts_value >= 20000
    /\ gts_date # GtsNone

\* the share of the day starting at day in the sum of the year starting at
\* soy: nothing without a mean or for a mean <= 0, half of the mean before
\* day 31, three quarters before day 59, the mean afterwards
DayShare(h, day, soy) ==
    LET result == get_aggregate_avg(h, day)
        m == ToCelsius(result.val)
    IN  IF result.res # "vt" \/ m <= 0 THEN 0
        ELSE IF day < soy + 31 * DaySecs THEN m \div 2
        ELSE IF day < soy + 59 * DaySecs THEN (3 * m) \div 4
        ELSE m

\* the shares of the n days from the day starting at from
RECURSIVE ShareSum(_, _, _, _)
ShareSum(h, from, n, soy) ==
    IF n <= 0 THEN 0
    ELSE IF n = 1 THEN DayShare(h, from, soy)
    ELSE ShareSum(h, from, n \div 2, soy)
         + ShareSum(h, from + (n \div 2) * DaySecs, n - (n \div 2), soy)

\* one of the n days from the day starting at from has a mean
AnyMean(h, from, n) ==
    \E k \in 0..(n - 1) : get_aggregate_avg(h, from + k * DaySecs).res = "vt"

\* a call that finds no state, or a state of a year before
ResetCall ==
    /\ GtsCall
    /\ last_gts_date = GtsNone \/ last_gts_date < archiveYearStart(time_ts')

\* C8 (as claimed): a call that finds no state or a state of a year before
\* starts from the year's start with the sum zero and the crossing day unset,
\* so that the sum afterwards holds this year's days only.
C8_ResetToZero ==
    [][ResetCall =>
        LET soy == archiveYearStart(time_ts')
        IN  /\ last_gts_date' = soy + gts_loops' * DaySecs
            /\ gts_value' = ShareSum(history, soy, gts_loops', soy)
            /\ gts_date' = GtsNone \/ gts_date' >= soy]_vars

\* C8 (amended): such a call starts from the year's start with the sum and
\* the crossing day unset; the sum stays unset until a day with a mean is
\* processed and then holds this year's days only.
C8_ResetToUnset ==
    [][ResetCall =>
        LET soy == archiveYearStart(time_ts')
        IN  /\ last_gts_date' = soy + gts_loops' * DaySecs
            /\ gts_value' = IF AnyMean(history, soy, gts_loops')
                            THEN ShareSum(history, soy, gts_loops', soy)
                            ELSE GtsNone
            /\ gts_date' = GtsNone \/ gts_date' >= soy]_vars

\* in the second year, after more than 200 degree days in the first, the sum
\* is that of the second year's days
C8_Witness ==
    /\ history = 1
    /\ last_gts_date > YearSecs
    /\ gts_value > 0
    /\ gts_value < 20000

\* C9: a call adds, for every day it processes, nothing for a mean <= 0, half
\* the mean for a day before year start + 31 days, three quarters of it before
\* year start + 59 days and the mean otherwise; no day starting at or after
\* year start + 151 days is processed.
C9_Weighting ==
    [][GtsCall =>
        LET soy == archiveYearStart(time_ts')
            reset == last_gts_date = GtsNone \/ last_gts_date < soy
            from == IF reset THEN soy ELSE last_gts_date
            before == IF reset \/ gts_value = GtsNone THEN 0 ELSE gts_value
            after == IF gts_value' = GtsNone THEN 0 ELSE gts_value'
            n == (last_gts_date' - from) \div DaySecs
        IN  /\ after - before = ShareSum(history, from, n, soy)
            /\ n = gts_loops'
            /\ n > 0 => last_gts_date' - DaySecs < soy + 151 * DaySecs]_vars

\* all of January to May at 10 degree_C: 31 days at 5, 28 at 7.5, 92 at 10
C9_Witness ==
    /\ history = 1
    /\ last_gts_date = 151 * DaySecs
    /\ gts_value = 128500

----------------------------------------------------------------------------
(* Constructor properties *)

\* the options of the constructor
OverrideOptions == {"T5AKT_", "SOD1D_", "TSOI10", "TSOI20", "TSOI50"}

\* the wire keys of the entries an option may change
OptionKeys(o) ==
    CASE o = "T5AKT_" -> {"T5AKT_", "T5MIN_"}
      [] o = "SOD1D_" -> {"SOD1H_", "SOD1D_", "SOD1M_", "SOD1A_"}
      [] OTHER -> {o}

\* the option of c is set: neither None nor 'None' nor ''
OptionSet(c, o) ==
    /\ c[o].t # "none"
    /\ ~(c[o].t = "str" /\ (Lower(c[o].s) = "none" \/ c[o].s = ""))

\* C14 (as claimed): whatever the values of the five options, the constructor
\* returns without raising, and for a value that is no str it logs the value
\* and leaves the entries of the option with the source, window and operator
\* of the default table.
C14_InvalidOverrideNonFatal ==
    init_count > 0 =>
        /\ init_exc = ""
        /\ \A o \in OverrideOptions :
              conf[o].t = "int" =>
                 /\ init_log # <<>>
                 /\ \A i \in 1..Len(DATA_MAP) :
                       Key(DATA_MAP[i]) \in OptionKeys(o) =>
                          DATA_MAP[i] = DEFAULT_DATA_MAP[i]

\* C18 (as claimed): after a constructor call with valid overrides the table
\* has the length, the wire keys in their order and the format rules of the
\* default table, and every entry that is not one of an option that is set
\* is the entry of the default table.
C18_OverrideFrame ==
    (init_count > 0 /\ init_exc = ""
        /\ \A o \in OverrideOptions : conf[o].t # "int") =>
        /\ Len(DATA_MAP) = Len(DEFAULT_DATA_MAP)
        /\ \A i \in 1..Len(DATA_MAP) :
              /\ Key(DATA_MAP[i]) = Key(DEFAULT_DATA_MAP[i])
              /\ Fstr(DATA_MAP[i]) = Fstr(DEFAULT_DATA_MAP[i])
              /\ (\A o \in OverrideOptions :
                     OptionSet(conf, o) => Key(DATA_MAP[i]) \notin OptionKeys(o))
                 => DATA_MAP[i] = DEFAULT_DATA_MAP[i]

----------------------------------------------------------------------------
(* Logging of the request *)

\* C15 (as claimed): while log_url is false, format_url writes the URL, and
\* with it the API key, to no log, whatever the other settings, so that the
\* log is the same for every API key.
C15_NoUrlInLog ==
    ~log_url =>
        \A i \in 1..Len(url_log) : url_log[i].url.api_key # api_key

----------------------------------------------------------------------------
(* The accumulator under calls in any order *)

\* the day the loop of a call for time_ts' starts from
LoopFrom ==
    IF last_gts_date = GtsNone \/ last_gts_date < archiveYearStart(time_ts')
    THEN archiveYearStart(time_ts')
    ELSE last_gts_date

\* the day the loop of a call for time_ts' stops at
LoopStop ==
    IF startOfDay(time_ts') < EndTs(archiveYearStart(time_ts'))
    THEN startOfDay(time_ts')
    ELSE EndTs(archiveYearStart(time_ts'))

\* the days the loop of the call has visited: those it finished and the one
\* whose query raised
LoopVisited == gts_loops' + IF gts_exc' # "" THEN 1 ELSE 0

\* C16 (as claimed): for every day a call visits, the last processed day
\* moves on by one day, whether the query for the mean of the day gave a
\* value, gave none or failed, and a call visits at most
\* (min(start of the day of the record, cutoff) - last processed day) / 1 day
\* days.
C16_LoopProgress ==
    [][/\ LoopVisited <= (IF LoopStop > LoopFrom
                          THEN (LoopStop - LoopFrom) \div DaySecs ELSE 0)
       /\ last_gts_date' = LoopFrom + LoopVisited * DaySecs]_vars

\* C17 (as claimed): whatever the order of the timestamps of the calls within one process
\* (the same day again, or back in time), the last processed day never goes
\* back, no day's mean is added twice, and a day whose mean a call adds has
\* ended at or before the start of the day of the record.
C17_AtMostOnce ==
    [][/\ last_gts_date # GtsNone => last_gts_date' >= last_gts_date
       /\ \A i, j \in 1..Len(gts_days') : i < j => gts_days'[i] < gts_days'[j]
       /\ \A i \in (Len(gts_days) + 1)..Len(gts_days') :
             gts_days'[i] + DaySecs <= startOfDay(time_ts')]_vars

\* a call for time_ts' that finds no state, or a state of a year before
LoopResets ==
    last_gts_date = GtsNone \/ last_gts_date < archiveYearStart(time_ts')

\* the sum a call for time_ts' starts from
SumBefore == IF LoopResets \/ gts_value = GtsNone THEN 0 ELSE gts_value

\* the sum after the first k days the call visits
SumAfter(k) ==
    SumBefore + ShareSum(history, LoopFrom, k, archiveYearStart(time_ts'))

\* C19: the crossing day is set when the sum reaches 200, to the first day
\* after whose share the sum is >= 200, and then stays until the next reset;
\* where the crossing day is set the sum is >= 200, and between resets the sum
\* never gets smaller.
C19_CrossingDay ==
    /\ [](gts_date # GtsNone => gts_value >= 20000)
    /\ [][/\ (~LoopResets /\ gts_value # GtsNone) => gts_value' >= gts_value
          /\ (~LoopResets /\ gts_date # GtsNone) => gts_date' = gts_date
          /\ gts_value' >= 20000 => gts_date' # GtsNone
          /\ ((LoopResets \/ gts_date = GtsNone) /\ gts_date' # GtsNone) =>
                \E k \in 0..(gts_loops' - 1) :
                   /\ gts_date' = LoopFrom + k * DaySecs
                   /\ SumAfter(k) < 20000
                   /\ SumAfter(k + 1) >= 20000]_vars

\* the crossing day of an earlier call is still there after a later call
C19_Witness ==
    /\ gts_date # GtsNone
    /\ gts_loops > 0
    /\ gts_date + gts_loops * DaySecs < last_gts_date
    /\ gts_value > 20000

----------------------------------------------------------------------------
(* get_record: the record one hour ago *)

\* the archive records with a timestamp from lo to hi
Stored(lo, hi) == {t \in archive : t >= lo /\ t <= hi}

\* the earliest record of [now-3600, now-3300], else the latest record of
\* [now-3900, now-3600], else None
Baseline ==
    IF Stored(time_ts - 3600, time_ts - 3300) # {}
    THEN SetMin(Stored(time_ts - 3600, time_ts - 3300))
    ELSE IF Stored(time_ts - 3900, time_ts - 3600) # {}
         THEN SetMax(Stored(time_ts - 3900, time_ts - 3600))
         ELSE NoneTs

\* C20: get_record takes as the record one hour ago the earliest archive
\* record of [now-3600, now-3300], failing that the latest archive record of
\* [now-3900, now-3600]; when both windows are empty or the query raises it
\* takes none, and outTemp1h, barometer1h and pressure1h stay absent.
C20_NearestHourAgo ==
    rec_calls > 0 =>
       /\ db_fault # "MIN(dateTime)" => ago1_ts = Baseline
       /\ db_fault = "MIN(dateTime)" => ago1_ts = NoneTs
       /\ (ago1_ts = NoneTs /\ rec_exc = "") =>
             \A k \in Ago1Keys \ in_record : datadict[k] = "absent"
----------------------------------------------------------------------------
(* get_record: the keys the record came with *)

\* C11: every key get_record can set that is in the input record has the
\* value of the input record in the record get_record returns, whatever the
\* archive holds.
C11_InputPrecedence ==
    (rec_calls > 0 /\ rec_exc = "") =>
       \A k \in in_record : datadict[k] = "input"

\* C12: for a record that has every key get_record can set, get_record makes
\* no getSql and no get_aggregate call and returns the values of the input.
C12_NoQueriesWhenComplete ==
    (rec_calls > 0 /\ in_record = EnrichKeys) =>
       /\ queries = <<>>
       /\ rec_exc = ""
       /\ datadict = Datadict(in_record)
----------------------------------------------------------------------------
(* get_record: one failing query *)

\* the keys whose value the query supplies
Supplies(q) ==
    IF q = "MIN(dateTime)" THEN Ago1Keys \cup Agg1hKeys
    ELSE IF q = "DayMinMax" THEN DayKeys
    ELSE IF q = "Ago1Row" THEN Ago1Keys
    ELSE IF q = "Agg1h" THEN Agg1hKeys
    ELSE IF q = "GTS" THEN {"GTS", "GTSdate"}
    ELSE {q}

\* the query that fails: db_fault, or the query of calc_gts on a history
\* whose query raises
FailingQuery ==
    IF history \in FailingHistoryIds THEN "GTS" ELSE db_fault

\* exactly one query of the archive fails
SingleFailure ==
    (history \in FailingHistoryIds) # (db_fault # "")

\* what get_record returns for the same record on the same archive when no
\* query fails
Unfailing ==
    get_record([archive |-> archive, fault |-> "", history |-> 1,
                ts |-> time_ts],
               in_record, GtsState(GtsNone, GtsNone, GtsNone, 0), DATA_MAP).d

\* C13: when one query of get_record fails, get_record returns a record
\* without raising; the keys the failing query supplies are absent unless
\* the input record had them, and every other key has the value it has when
\* no query fails.
C13_FailureIsolation ==
    (rec_calls > 0 /\ SingleFailure) =>
       /\ rec_exc = ""
       /\ \E u \in {Unfailing} :
             \A k \in EnrichKeys \ Supplies(FailingQuery) : datadict[k] = u[k]
       /\ \A k \in Supplies(FailingQuery) \ in_record :
             datadict[k] = "absent"
====
